---- MODULE Spec2Model ----
(***************************************************************************)
(* Model of elexon-data-ingest: the ElexonAPI client (fetch_data and the   *)
(* three get_*_data wrappers), the three DataStrategy.process_data         *)
(* transformations, and the orchestrator ingest_elexon_data with its two   *)
(* pandas merges.                                                          *)
(*                                                                         *)
(* Values.  A JSON object is a function from the keys it has to their      *)
(* values; a missing key is a key outside its DOMAIN.  Scalars other than  *)
(* timestamps are strings ("100", "CCGT"); Null is pandas' missing value   *)
(* (None / NaN).  A parsed date-time is the number of hours since          *)
(* 2023-01-01T00:00:00, a calendar date the number of days since           *)
(* 2023-01-01.  A DataFrame is a record of its column set and its row      *)
(* sequence; pd.DataFrame([]) has no columns at all.                       *)
(***************************************************************************)
EXTENDS Integers, Sequences, FiniteSets, TLC

VARIABLES
    api,               \* the ElexonAPI object: base_url, start_date, end_date, format
    requests,          \* every GET issued so far: <<[url, params, timeout], ...>>
    fetch_calls,       \* number of fetch_data invocations so far
    call,              \* the last process_data / fetch_data call and its outcome
    pc,                \* position of the running procedure
    temperature_data,  \* ingest_elexon_data locals
    generation_data,
    demand_data,
    merged_data,
    merges,            \* the pd.merge calls started so far: <<[left, right], ...>>
    fatal              \* the exception that ended the run, "" while there is none

vars == <<api, requests, fetch_calls, call, pc, temperature_data,
          generation_data, demand_data, merged_data, merges, fatal>>

----------------------------------------------------------------------------
(* Bounds *)

MaxEntries == 2      \* entries of a payload's "data" list (strategy checks)
MaxPairs == 2        \* {psrType, quantity} pairs of one Generation payload
MaxFetches == 2      \* fetch_data calls in one client history
MaxRows == 2         \* rows of a table handed to the merges directly

Timeout == 5

----------------------------------------------------------------------------
(* Python values *)

Null == "null"

\* A frame: its columns, its rows in order (each a function on the columns
\* and the index label), and the label of its index ("" for the default
\* RangeIndex).
DataFrame(cols, rows) ==
    [kind |-> "DataFrame", columns |-> cols, rows |-> rows, index |-> "", exc |-> ""]

PyNone == [kind |-> "None", columns |-> {}, rows |-> <<>>, index |-> "", exc |-> ""]

Raised(e) == [kind |-> "raise", columns |-> {}, rows |-> <<>>, index |-> "", exc |-> e]

\* The missing value of a timestamp column (NaT); timestamps are integers.
NaT == 0 - 1

TimestampCols == {"timestamp", "timestamp_x", "timestamp_y"}

NullOf(c) == IF c \in TimestampCols THEN NaT ELSE Null

IsNull(c, v) == IF c \in TimestampCols THEN v = NaT ELSE v = Null

\* pd.DataFrame(list_of_dicts): one row per dict, in order; the columns are
\* the dicts' keys, so an empty list gives a frame without columns.
FromRecords(rows) ==
    DataFrame(IF rows = <<>> THEN {} ELSE DOMAIN rows[1], rows)

SeqsUpTo(S, n) == UNION {[1..k -> S] : k \in 0..n}

Min(S) == CHOOSE x \in S : \A y \in S : x <= y

DictPop(d, k) == [x \in DOMAIN d \ {k} |-> d[x]]

DictSet(d, k, v) == [x \in DOMAIN d \cup {k} |-> IF x = k THEN v ELSE d[x]]

----------------------------------------------------------------------------
(* Date strings and their parsing *)

StartTimes == {"2023-01-01T12:00:00", "2023-01-02T00:00:00"}

MeasurementDates == {"2023-01-01", "2023-01-02"}

BadDate == "not-a-date"

\* pd.to_datetime on a string: hours since 2023-01-01T00:00:00.  A date-only
\* string parses to midnight of that date.
Parsable(s) == s \in StartTimes \cup MeasurementDates

to_datetime(s) ==
    CASE s = "2023-01-01" -> 0
      [] s = "2023-01-01T12:00:00" -> 12
      [] s = "2023-01-02" -> 24
      [] s = "2023-01-02T00:00:00" -> 24

\* Timestamp.date() / Series.dt.date: the calendar date of a date-time.
date(ts) == ts \div 24

----------------------------------------------------------------------------
(* DataStrategy.process_data *)

RowOk(r) == [ok |-> TRUE, row |-> r, exc |-> ""]

RowErr(e) == [ok |-> FALSE, row |-> <<>>, exc |-> e]

\* One dict of a list comprehension: the keys are read in display order and
\* the first failing lookup or parse raises.
TemperatureRow(entry) ==
    IF "temperature" \notin DOMAIN entry THEN RowErr("KeyError")
    ELSE IF "temperatureReferenceAverage" \notin DOMAIN entry THEN RowErr("KeyError")
    ELSE IF "measurementDate" \notin DOMAIN entry THEN RowErr("KeyError")
    ELSE IF ~Parsable(entry["measurementDate"]) THEN RowErr("ValueError")
    ELSE RowOk([temperature |-> entry["temperature"],
                temperatureReferenceAverage |-> entry["temperatureReferenceAverage"],
                timestamp |-> date(to_datetime(entry["measurementDate"]))])

GenerationRow(entry, subentry) ==
    IF "startTime" \notin DOMAIN entry THEN RowErr("KeyError")
    ELSE IF ~Parsable(entry["startTime"]) THEN RowErr("ValueError")
    ELSE IF "psrType" \notin DOMAIN subentry THEN RowErr("KeyError")
    ELSE IF "quantity" \notin DOMAIN subentry THEN RowErr("KeyError")
    ELSE RowOk([timestamp |-> to_datetime(entry["startTime"]),
                psrType |-> subentry["psrType"],
                quantity |-> subentry["quantity"]])

\* dict.get: the value, or None when the key is missing.
DictGet(d, k) == IF k \in DOMAIN d THEN d[k] ELSE Null

DemandRowStrict(entry) ==
    IF "startTime" \notin DOMAIN entry THEN RowErr("KeyError")
    ELSE IF ~Parsable(entry["startTime"]) THEN RowErr("ValueError")
    ELSE IF "initialDemandOutturn" \notin DOMAIN entry THEN RowErr("KeyError")
    ELSE RowOk([timestamp |-> to_datetime(entry["startTime"]),
                initialDemandOutturn |-> entry["initialDemandOutturn"]])

DemandRow(entry) ==
    IF "startTime" \notin DOMAIN entry THEN RowErr("KeyError")
    ELSE IF ~Parsable(entry["startTime"]) THEN RowErr("ValueError")
    ELSE RowOk([timestamp |-> to_datetime(entry["startTime"]),
                initialDemandOutturn |-> DictGet(entry, "initialDemandOutturn")])

\* The comprehension over a list of per-element results: the first failure
\* aborts it, otherwise the rows in order.
Collect(rs) ==
    LET bad == {i \in DOMAIN rs : ~rs[i].ok}
    IN  IF bad # {} THEN [ok |-> FALSE, rows |-> <<>>, exc |-> rs[Min(bad)].exc]
        ELSE [ok |-> TRUE, rows |-> [i \in DOMAIN rs |-> rs[i].row], exc |-> ""]

ToFrame(c) == IF c.ok THEN FromRecords(c.rows) ELSE Raised(c.exc)

TemperatureStrategy_process_data(data) ==
    ToFrame(Collect([i \in DOMAIN data["data"] |-> TemperatureRow(data["data"][i])]))

GenerationEntryRowsFirstOnly(entry) ==
    IF "data" \notin DOMAIN entry THEN [ok |-> FALSE, rows |-> <<>>, exc |-> "KeyError"]
    ELSE Collect([j \in DOMAIN entry["data"] \cap {1} |->
                    GenerationRow(entry, entry["data"][j])])

\* The inner loop of one outer entry: entry["data"] is looked up when the
\* outer loop reaches the entry; the row expression runs once per subentry.
GenerationEntryRows(entry) ==
    IF "data" \notin DOMAIN entry THEN [ok |-> FALSE, rows |-> <<>>, exc |-> "KeyError"]
    ELSE Collect([j \in DOMAIN entry["data"] |-> GenerationRow(entry, entry["data"][j])])

RECURSIVE GenerationRows(_)
GenerationRows(entries) ==
    IF entries = <<>> THEN [ok |-> TRUE, rows |-> <<>>, exc |-> ""]
    ELSE LET first == GenerationEntryRows(Head(entries))
         IN  IF ~first.ok THEN first
             ELSE LET rest == GenerationRows(Tail(entries))
                  IN  IF ~rest.ok THEN rest
                      ELSE [ok |-> TRUE, rows |-> first.rows \o rest.rows, exc |-> ""]

GenerationStrategy_process_data(data) == ToFrame(GenerationRows(data["data"]))

DemandStrategy_process_data(data) ==
    ToFrame(Collect([i \in DOMAIN data["data"] |-> DemandRow(data["data"][i])]))

Strategies == {"TemperatureStrategy", "GenerationStrategy", "DemandStrategy"}

process_data(strategy, data) ==
    CASE strategy = "TemperatureStrategy" -> TemperatureStrategy_process_data(data)
      [] strategy = "GenerationStrategy" -> GenerationStrategy_process_data(data)
      [] strategy = "DemandStrategy" -> DemandStrategy_process_data(data)

----------------------------------------------------------------------------
(* Payloads served by the provider *)

Temperatures == {"20", "21"}

TemperatureEntries ==
    {[temperature |-> t, temperatureReferenceAverage |-> "18", measurementDate |-> d] :
        t \in Temperatures, d \in MeasurementDates}

Pairs == {[psrType |-> "CCGT", quantity |-> "100"], [psrType |-> "WIND", quantity |-> "50"]}

GenerationEntries ==
    {[startTime |-> s, data |-> ps] : s \in StartTimes, ps \in SeqsUpTo(Pairs, MaxPairs)}

\* initialDemandOutturn is optional in a Demand entry.
DemandEntries ==
    {[startTime |-> s, initialDemandOutturn |-> "5000"] : s \in StartTimes}
        \cup {[startTime |-> s] : s \in StartTimes}

\* An entry with one defect: a key removed, or its date string unparsable.
Damaged(entry, keys, dateKey) ==
    {DictPop(entry, k) : k \in keys} \cup {DictSet(entry, dateKey, BadDate)}

DamagedPairs(entry) ==
    UNION {{[entry EXCEPT !["data"][j] = DictPop(entry["data"][j], k)] :
                k \in {"psrType", "quantity"}} : j \in DOMAIN entry["data"]}

DamagedEntries(strategy, entry) ==
    CASE strategy = "TemperatureStrategy" ->
            Damaged(entry, {"temperature", "temperatureReferenceAverage", "measurementDate"},
                    "measurementDate")
      [] strategy = "GenerationStrategy" ->
            Damaged(entry, {"startTime", "data"}, "startTime") \cup DamagedPairs(entry)
      [] strategy = "DemandStrategy" ->
            Damaged(entry, {"startTime"}, "startTime")

ValidEntries(strategy) ==
    CASE strategy = "TemperatureStrategy" -> TemperatureEntries
      [] strategy = "GenerationStrategy" -> GenerationEntries
      [] strategy = "DemandStrategy" -> DemandEntries

RECURSIVE PairTotal(_)
PairTotal(entries) ==
    IF entries = <<>> THEN 0 ELSE Len(Head(entries)["data"]) + PairTotal(Tail(entries))

\* The provider's payloads for a strategy with at most n entries (and, for
\* Generation, at most MaxPairs pairs in all): every well-formed one, and
\* every one with a single defective entry.
ValidPayloads(strategy, n) ==
    {[data |-> es] :
        es \in {x \in SeqsUpTo(ValidEntries(strategy), n) :
                    strategy = "GenerationStrategy" => PairTotal(x) <= MaxPairs}}

DamagedPayloads(strategy, n) ==
    UNION {UNION {{[data |-> [p["data"] EXCEPT ![i] = d]] :
                        d \in DamagedEntries(strategy, p["data"][i])} :
                  i \in DOMAIN p["data"]} :
           p \in ValidPayloads(strategy, n)}

Payloads(strategy, n) == ValidPayloads(strategy, n) \cup DamagedPayloads(strategy, n)

EmptyPayload == [data |-> <<>>]

\* The payloads of the unit tests' shape: no entry, or a single entry.
SingleValid(strategy) ==
    {EmptyPayload} \cup {[data |-> <<e>>] : e \in ValidEntries(strategy)}

SingleDamaged(strategy) ==
    UNION {{[data |-> <<d>>] : d \in DamagedEntries(strategy, e)} :
           e \in ValidEntries(strategy)}

----------------------------------------------------------------------------
(* HTTP responses *)

\* error: the exception requests.get raises, "" when a response arrives;
\* json_error: the exception response.json() raises on this body, "" when it
\* decodes (requests from 2.27 on raises its own JSONDecodeError, a
\* RequestException; older ones let the decoder's ValueError through).
Response(err, status, jerr, body) ==
    [error |-> err, status_code |-> status, json_error |-> jerr, body |-> body]

Ok200(body) == Response("", 200, "", body)

Responses(payloads) ==
    {Response("", st, "", p) : st \in {200, 300}, p \in payloads}
        \cup {Response(e, 0, "", EmptyPayload) : e \in {"ConnectionError", "Timeout"}}
        \cup {Response("", st, "", EmptyPayload) : st \in {404, 500}}
        \cup {Response("", st, j, EmptyPayload) :
                st \in {200, 300}, j \in {"JSONDecodeError", "ValueError"}}

\* requests.exceptions.RequestException and its subclasses.
RequestException == {"ConnectionError", "Timeout", "HTTPError", "JSONDecodeError"}

----------------------------------------------------------------------------
(* ElexonAPI *)

StartDates == {"2023-01-01", "2022-09-20"}
EndDates == {"2023-01-31"}
Formats == {"json"}

ElexonAPI(auth, start_date, end_date, data_format) ==
    [base_url |-> "https://data.elexon.co.uk/bmrs/api/v1/",
     auth |-> <<"apikey", auth>>,
     start_date |-> start_date,
     end_date |-> end_date,
     format |-> data_format]

Endpoints == {"temperature", "generation/actual/per-type", "demand/outturn"}

\* The url_params dict of one fetch_data call.
UrlParamsNoRename(self, endpoint) ==
    [from |-> self.start_date, to |-> self.end_date, format |-> self.format]

UrlParams(self, endpoint) ==
    LET p0 == [from |-> self.start_date, to |-> self.end_date, format |-> self.format]
        p1 == DictSet(DictPop(p0, "from"), "settlementDateFrom", p0["from"])
        p2 == DictSet(DictPop(p1, "to"), "settlementDateTo", p1["to"])
    IN  IF endpoint = "demand/outturn" THEN p2 ELSE p0

Request(self, endpoint) ==
    [url |-> <<self.base_url, endpoint>>,
     params |-> UrlParams(self, endpoint),
     timeout |-> Timeout,
     auth |-> self.auth]

\* The GETs one fetch_data call issues: requests.get is called once, before
\* anything can fail, and nothing calls it again.
GetsIssuedRetry(self, endpoint, response) ==
    IF response.error # "" \/ response.status_code >= 400
    THEN <<Request(self, endpoint), Request(self, endpoint)>>
    ELSE <<Request(self, endpoint)>>

GetsIssued(self, endpoint, response) == <<Request(self, endpoint)>>

\* raise_for_status raises HTTPError for a 4xx or 5xx status only.
TryBody(strategy, response) ==
    IF response.error # "" THEN Raised(response.error)
    ELSE IF response.status_code >= 400 /\ response.status_code < 600 THEN Raised("HTTPError")
    ELSE IF response.json_error # "" THEN Raised(response.json_error)
    ELSE process_data(strategy, response.body)

\* except requests.exceptions.RequestException: print, return None.
ExceptAll(r) == IF r.kind = "raise" THEN PyNone ELSE r

ExceptConnectionError(r) == IF r.kind = "raise" /\ r.exc = "ConnectionError" THEN PyNone ELSE r

Except(r) == IF r.kind = "raise" /\ r.exc \in RequestException THEN PyNone ELSE r

fetch_data(strategy, response) == Except(TryBody(strategy, response))

EndpointOf(strategy) ==
    CASE strategy = "TemperatureStrategy" -> "temperature"
      [] strategy = "GenerationStrategy" -> "generation/actual/per-type"
      [] strategy = "DemandStrategy" -> "demand/outturn"

----------------------------------------------------------------------------
(* Calls *)

Call(op, endpoint, strategy, response, outcome) ==
    [op |-> op, endpoint |-> endpoint, strategy |-> strategy,
     response |-> response, outcome |-> outcome]

NoCall == Call("none", "", "", Ok200(EmptyPayload), PyNone)

Idle ==
    /\ requests = <<>>
    /\ fetch_calls = 0
    /\ temperature_data = PyNone
    /\ generation_data = PyNone
    /\ demand_data = PyNone
    /\ merged_data = PyNone
    /\ merges = <<>>
    /\ fatal = ""

\* One fetch_data call on the client: the GET is logged, the outcome kept.
FetchData(endpoint, strategy, response) ==
    /\ requests' = requests \o GetsIssued(api, endpoint, response)
    /\ fetch_calls' = fetch_calls + 1
    /\ call' = Call("fetch_data", endpoint, strategy, response,
                    fetch_data(strategy, response))
    /\ UNCHANGED api

----------------------------------------------------------------------------
(* SpecProcess: one strategy applied to one payload, directly                *)
(* (strategy.process_data(data)) or through fetch_data on a 200 response.    *)

InitProcess ==
    /\ api = ElexonAPI("your_api_key", "2023-01-01", "2023-01-31", "json")
    /\ pc = "pending"
    /\ \E s \in Strategies : \E p \in Payloads(s, MaxEntries) :
          call = Call("pending", EndpointOf(s), s, Ok200(p), PyNone)
    /\ Idle

CallProcessData ==
    /\ pc = "pending"
    /\ pc' = "returned"
    /\ call' = [call EXCEPT !.op = "process_data",
                            !.outcome = process_data(call.strategy, call.response.body)]
    /\ UNCHANGED <<api, requests, fetch_calls, temperature_data, generation_data,
                   demand_data, merged_data, merges, fatal>>

CallFetchData ==
    /\ pc = "pending"
    /\ pc' = "returned"
    /\ FetchData(call.endpoint, call.strategy, call.response)
    /\ UNCHANGED <<temperature_data, generation_data, demand_data, merged_data, merges,
                   fatal>>

NextProcess == CallProcessData \/ CallFetchData

SpecProcess == InitProcess /\ [][NextProcess]_vars

----------------------------------------------------------------------------
(* SpecClient: any sequence of fetch_data calls on one client.               *)

InitClient ==
    /\ \E sd \in StartDates, ed \in EndDates, f \in Formats :
          api = ElexonAPI("your_api_key", sd, ed, f)
    /\ pc = "client"
    /\ call = NoCall
    /\ Idle

ClientFetch ==
    /\ pc = "client"
    /\ fetch_calls < MaxFetches
    /\ \E strategy \in Strategies :
          \E response \in Responses(SingleValid(strategy)) :
             FetchData(EndpointOf(strategy), strategy, response)
    /\ UNCHANGED <<pc, temperature_data, generation_data, demand_data, merged_data, merges,
                   fatal>>

NextClient == ClientFetch

SpecClient == InitClient /\ [][NextClient]_vars

----------------------------------------------------------------------------
(* pandas: merge, drop, rename, dropna, set_index *)

RECURSIVE Flatten(_)
Flatten(ss) == IF ss = <<>> THEN <<>> ELSE Head(ss) \o Flatten(Tail(ss))

RECURSIVE SortedSeq(_)
SortedSeq(S) == IF S = {} THEN <<>> ELSE <<Min(S)>> \o SortedSeq(S \ {Min(S)})

NullRow(cols) == [c \in cols |-> NullOf(c)]

\* A column both frames have gets the side's suffix.
Suffixed(c, overlap, sfx) == IF c \in overlap THEN c \o sfx ELSE c

SuffixedRow(row, overlap, sfx) ==
    [c2 \in {Suffixed(c, overlap, sfx) : c \in DOMAIN row} |->
        row[CHOOSE c \in DOMAIN row : Suffixed(c, overlap, sfx) = c2]]

MergeLeftRowsCross(left, left_on, right, right_on) ==
    LET overlap == left.columns \cap right.columns
        Row(i, r) == (right_on :> left_on[i])
                        @@ SuffixedRow(left.rows[i], overlap, "_x")
                        @@ SuffixedRow(r, overlap, "_y")
    IN  Flatten([i \in 1..Len(left.rows) |->
                    [j \in 1..Len(right.rows) |-> Row(i, right.rows[j])]])

\* pd.merge(left, right, left_on=<array>, right_on=<label>, how="left"):
\* every left row in order, once per right row whose right_on value equals
\* the left row's key, or once with the right columns null when none does.
\* Columns of both frames are suffixed _x / _y; the key values are inserted
\* under the right_on label.
MergeLeftRows(left, left_on, right, right_on) ==
    LET overlap == left.columns \cap right.columns
        Matches(i) == SelectSeq(right.rows, LAMBDA r : r[right_on] = left_on[i])
        Row(i, r) == (right_on :> left_on[i])
                        @@ SuffixedRow(left.rows[i], overlap, "_x")
                        @@ SuffixedRow(r, overlap, "_y")
    IN  Flatten([i \in 1..Len(left.rows) |->
                    IF Matches(i) = <<>>
                    THEN <<Row(i, NullRow(right.columns))>>
                    ELSE [j \in 1..Len(Matches(i)) |-> Row(i, Matches(i)[j])]])

MergeLeft(left, left_on, right, right_on) ==
    LET overlap == left.columns \cap right.columns
    IN  DataFrame({right_on}
                    \cup {Suffixed(c, overlap, "_x") : c \in left.columns}
                    \cup {Suffixed(c, overlap, "_y") : c \in right.columns},
                  MergeLeftRows(left, left_on, right, right_on))

\* pd.merge(left, right, on=<label>, how="outer"): the keys of both frames in
\* sorted order; per key the left rows times the right rows, a side without
\* the key contributing one all-null row.
MergeOuterRows(left, right, on) ==
    LET keys == {left.rows[i][on] : i \in DOMAIN left.rows}
                    \cup {right.rows[i][on] : i \in DOMAIN right.rows}
        Side(frame, k) ==
            LET m == SelectSeq(frame.rows, LAMBDA r : r[on] = k)
            IN  IF m = <<>> THEN <<NullRow(frame.columns \ {on})>> ELSE m
        Group(k) ==
            Flatten([i \in 1..Len(Side(left, k)) |->
                        [j \in 1..Len(Side(right, k)) |->
                            (on :> k) @@ Side(left, k)[i] @@ Side(right, k)[j]]])
        order == SortedSeq(keys)
    IN  Flatten([n \in 1..Len(order) |-> Group(order[n])])

MergeOuter(left, right, on) ==
    DataFrame(left.columns \cup right.columns, MergeOuterRows(left, right, on))

\* DataFrame.drop(labels, axis=1): a label that is no column is a KeyError.
Drop(frame, labels) ==
    IF ~(labels \subseteq frame.columns) THEN Raised("KeyError")
    ELSE [frame EXCEPT !.columns = @ \ labels,
                       !.rows = [i \in DOMAIN @ |-> [c \in DOMAIN @[i] \ labels |-> @[i][c]]]]

\* DataFrame.rename(columns={old: new}); a label that is no column is ignored.
\* In a method chain it is not reached when the method before it raised.
Rename(frame, old, new) ==
    LET To(c) == IF c = old THEN new ELSE c
    IN  IF frame.kind = "raise" THEN frame ELSE
        [frame EXCEPT !.columns = {To(c) : c \in @},
                      !.rows = [i \in DOMAIN @ |->
                                    [c2 \in {To(c) : c \in DOMAIN @[i]} |->
                                        @[i][CHOOSE c \in DOMAIN @[i] : To(c) = c2]]]]

\* DataFrame.dropna(): the rows without any null, in order.
DropNaKeepAll(frame) == frame

DropNa(frame) ==
    [frame EXCEPT !.rows = SelectSeq(@, LAMBDA r : \A c \in DOMAIN r : ~IsNull(c, r[c]))]

\* DataFrame.set_index(label, inplace=True): the column becomes the index.
SetIndex(frame, label) ==
    IF label \notin frame.columns THEN Raised("KeyError")
    ELSE [frame EXCEPT !.columns = @ \ {label}, !.index = label]

----------------------------------------------------------------------------
(* ingest_elexon_data: the two merge statements *)

\* Whether the first statement gets as far as calling pd.merge: its left_on
\* argument subscripts generation_data first.
FirstMergeCalled(generation, temperature) ==
    /\ generation.kind = "DataFrame"
    /\ "timestamp" \in generation.columns

\* What pd.merge makes of a right operand before joining.
RightOperandError(right, right_on) ==
    IF right.kind # "DataFrame" THEN "TypeError"
    ELSE IF right_on \notin right.columns THEN "KeyError"
    ELSE ""

\* The left-join-by-date chain: merge on the given left keys against the
\* right frame's timestamp, drop the key and the right timestamp, keep the
\* left timestamp as "timestamp".
MergeByDate(left, left_on, right) ==
    LET merged == MergeLeft(left, left_on, right, "timestamp")
        dropped == Drop(merged, {"timestamp", "timestamp_y"})
    IN  Rename(dropped, "timestamp_x", "timestamp")

FirstMergeSkipMissing(generation, temperature) ==
    IF generation.kind # "DataFrame" THEN Raised("TypeError")
    ELSE IF "timestamp" \notin generation.columns THEN Raised("KeyError")
    ELSE IF temperature.kind # "DataFrame" THEN generation
    ELSE IF "timestamp" \notin temperature.columns THEN Raised("KeyError")
    ELSE MergeByDate(generation,
                     [i \in DOMAIN generation.rows |-> date(generation.rows[i]["timestamp"])],
                     temperature)

\* merged_data = pd.merge(generation_data, temperature_data,
\*     left_on=<dates of generation timestamps>, right_on="timestamp",
\*     how="left").drop(["timestamp", "timestamp_y"], axis=1)
\*                 .rename(columns={"timestamp_x": "timestamp"})
FirstMerge(generation, temperature) ==
    IF generation.kind # "DataFrame" THEN Raised("TypeError")
    ELSE IF "timestamp" \notin generation.columns THEN Raised("KeyError")
    ELSE IF RightOperandError(temperature, "timestamp") # ""
         THEN Raised(RightOperandError(temperature, "timestamp"))
    ELSE MergeByDate(generation,
                     [i \in DOMAIN generation.rows |-> date(generation.rows[i]["timestamp"])],
                     temperature)

\* merged_data = pd.merge(merged_data, demand_data, on="timestamp",
\*     how="outer").dropna(); merged_data.set_index("timestamp", inplace=True)
SecondMerge(merged, demand) ==
    IF RightOperandError(demand, "timestamp") # ""
    THEN Raised(RightOperandError(demand, "timestamp"))
    ELSE LET joined == DropNa(MergeOuter(merged, demand, "timestamp"))
         IN  SetIndex(joined, "timestamp")

----------------------------------------------------------------------------
(* Spec: one run of ingest_elexon_data                                       *)

\* A get_*_data call of the run: the outcome is bound to the local, or the
\* exception it raises ends the run.
RunFetch(strategy, next) ==
    \E response \in Responses(SingleValid(strategy) \cup SingleDamaged(strategy)) :
        LET outcome == fetch_data(strategy, response)
        IN  /\ FetchData(EndpointOf(strategy), strategy, response)
            /\ IF outcome.kind = "raise"
               THEN /\ pc' = "fatal"
                    /\ fatal' = outcome.exc
                    /\ UNCHANGED <<temperature_data, generation_data, demand_data>>
               ELSE /\ pc' = next
                    /\ fatal' = fatal
                    /\ temperature_data' =
                          IF strategy = "TemperatureStrategy" THEN outcome ELSE temperature_data
                    /\ generation_data' =
                          IF strategy = "GenerationStrategy" THEN outcome ELSE generation_data
                    /\ demand_data' =
                          IF strategy = "DemandStrategy" THEN outcome ELSE demand_data
            /\ UNCHANGED <<merged_data, merges>>

GetTemperatureData ==
    /\ pc = "get_temperature_data"
    /\ RunFetch("TemperatureStrategy", "get_generation_data")

GetGenerationData ==
    /\ pc = "get_generation_data"
    /\ RunFetch("GenerationStrategy", "get_demand_data")

GetDemandData ==
    /\ pc = "get_demand_data"
    /\ RunFetch("DemandStrategy", "merge_temperature")

\* A merge statement of the run: its value is bound to merged_data, or the
\* exception it raises ends the run.
RunMerge(called, left, right, value, next) ==
    /\ merges' = IF called THEN Append(merges, [left |-> left.kind, right |-> right.kind])
                 ELSE merges
    /\ IF value.kind = "raise"
       THEN pc' = "fatal" /\ fatal' = value.exc /\ UNCHANGED merged_data
       ELSE pc' = next /\ fatal' = fatal /\ merged_data' = value
    /\ UNCHANGED <<api, requests, fetch_calls, call, temperature_data, generation_data,
                   demand_data>>

MergeTemperature ==
    /\ pc = "merge_temperature"
    /\ RunMerge(FirstMergeCalled(generation_data, temperature_data),
                generation_data, temperature_data,
                FirstMerge(generation_data, temperature_data), "merge_demand")

MergeDemand ==
    /\ pc = "merge_demand"
    /\ RunMerge(TRUE, merged_data, demand_data,
                SecondMerge(merged_data, demand_data), "done")

Init ==
    /\ \E sd \in StartDates, ed \in EndDates :
          api = ElexonAPI("your_api_key", sd, ed, "json")
    /\ pc = "get_temperature_data"
    /\ call = NoCall
    /\ Idle

Next ==
    \/ GetTemperatureData
    \/ GetGenerationData
    \/ GetDemandData
    \/ MergeTemperature
    \/ MergeDemand

Spec == Init /\ [][Next]_vars

----------------------------------------------------------------------------
(* SpecAlign: the two merge statements on any three normalized tables, and   *)
(* the left-join-by-date chain on a table and itself.                        *)

AlignGenerationEntries ==
    {[startTime |-> "2023-01-01T12:00:00", data |-> <<[psrType |-> "CCGT", quantity |-> "100"]>>],
     [startTime |-> "2023-01-01T12:00:00", data |-> <<[psrType |-> "WIND", quantity |-> "50"]>>],
     [startTime |-> "2023-01-02T00:00:00", data |-> <<[psrType |-> "CCGT", quantity |-> "100"]>>]}

AlignTemperatureEntries ==
    {[temperature |-> "20", temperatureReferenceAverage |-> "18", measurementDate |-> "2023-01-01"],
     [temperature |-> "21", temperatureReferenceAverage |-> "18", measurementDate |-> "2023-01-01"],
     [temperature |-> "21", temperatureReferenceAverage |-> "18", measurementDate |-> "2023-01-02"]}

AlignDemandEntries ==
    {[startTime |-> "2023-01-01T12:00:00", initialDemandOutturn |-> "5000"],
     [startTime |-> "2023-01-01T12:00:00"],
     [startTime |-> "2023-01-02T00:00:00", initialDemandOutturn |-> "5000"]}

\* The tables a strategy makes of the payloads with up to MaxRows entries.
Tables(strategy, entries) ==
    {process_data(strategy, [data |-> es]) : es \in SeqsUpTo(entries, MaxRows)}

InitAlign ==
    /\ api = ElexonAPI("your_api_key", "2023-01-01", "2023-01-31", "json")
    /\ pc = "merge_temperature"
    /\ call = NoCall
    /\ requests = <<>>
    /\ fetch_calls = 0
    /\ generation_data \in Tables("GenerationStrategy", AlignGenerationEntries)
    /\ temperature_data \in Tables("TemperatureStrategy", AlignTemperatureEntries)
    /\ demand_data \in Tables("DemandStrategy", AlignDemandEntries)
    /\ merged_data = PyNone
    /\ merges = <<>>
    /\ fatal = ""

\* The left-join-by-date chain applied to the Temperature table and itself;
\* the calendar date of a date-only timestamp is that date.
SelfMerge ==
    /\ pc = "merge_temperature"
    /\ "timestamp" \in temperature_data.columns
    /\ RunMerge(TRUE, temperature_data, temperature_data,
                MergeByDate(temperature_data,
                            [i \in DOMAIN temperature_data.rows |->
                                temperature_data.rows[i]["timestamp"]],
                            temperature_data),
                "self_merged")

NextAlign == MergeTemperature \/ MergeDemand \/ SelfMerge

SpecAlign == InitAlign /\ [][NextAlign]_vars

----------------------------------------------------------------------------
(* Claims about fetch_data (SpecClient)                                      *)

Fetched == call.op = "fetch_data"

TransportFailure(response) == response.error \in {"ConnectionError", "Timeout"}

\* C1 as stated: a fetch_data call whose GET fails at transport level or
\* whose response status is not 2xx returns None and raises nothing.
C1_NonSuccessYieldsNone ==
    (Fetched /\ (TransportFailure(call.response)
                    \/ ~(call.response.status_code \in 200..299)))
        => call.outcome = PyNone

\* C1 amended: a fetch_data call whose GET fails at transport level or whose
\* response status is 4xx or 5xx returns None and raises nothing.
C1_FailureYieldsNone ==
    (Fetched /\ (TransportFailure(call.response)
                    \/ call.response.status_code \in 400..599))
        => call.outcome = PyNone

C1_Witness ==
    /\ Fetched
    /\ fetch_calls = 2
    /\ call.response.error = "Timeout"
    /\ call.outcome = PyNone

ExpectedParams(endpoint) ==
    IF endpoint = "demand/outturn"
    THEN [settlementDateFrom |-> api.start_date, settlementDateTo |-> api.end_date,
          format |-> api.format]
    ELSE [from |-> api.start_date, to |-> api.end_date, format |-> api.format]

\* C6: every GET of a client's fetch history carries exactly
\* {settlementDateFrom, settlementDateTo, format} for demand/outturn and
\* exactly {from, to, format} for any other endpoint, with the client's
\* configured values; a demand fetch changes neither the configuration nor
\* the parameters of the fetches after it.
C6_QueryParameters ==
    \A i \in DOMAIN requests :
        /\ DOMAIN requests[i].params =
              (IF requests[i].url[2] = "demand/outturn"
               THEN {"settlementDateFrom", "settlementDateTo", "format"}
               ELSE {"from", "to", "format"})
        /\ requests[i].params = ExpectedParams(requests[i].url[2])
        /\ requests[i].url[1] = api.base_url

C6_Witness ==
    /\ Len(requests) = 2
    /\ requests[1].url[2] = "demand/outturn"
    /\ requests[2].url[2] = "temperature"
    /\ "from" \in DOMAIN requests[2].params

----------------------------------------------------------------------------
(* Claims about process_data (SpecProcess)                                   *)

Returned == call.op \in {"process_data", "fetch_data"}

Entries == call.response.body["data"]

ValidGenerationPayload ==
    /\ call.strategy = "GenerationStrategy"
    /\ \A i \in DOMAIN Entries :
          /\ DOMAIN Entries[i] = {"startTime", "data"}
          /\ Parsable(Entries[i]["startTime"])
          /\ \A j \in DOMAIN Entries[i]["data"] :
                DOMAIN Entries[i]["data"][j] = {"psrType", "quantity"}

RECURSIVE PairsBefore(_)
PairsBefore(i) == IF i <= 1 THEN 0 ELSE PairsBefore(i - 1) + Len(Entries[i - 1]["data"])

\* C7: on a valid Generation payload process_data yields the sum of the K_i
\* rows in payload order: the j-th pair of entry i is the row after those of
\* the entries before it and the pairs before it, with that entry's parsed
\* startTime and the pair's own psrType and quantity.
C7_GenerationRows ==
    (call.op = "process_data" /\ ValidGenerationPayload) =>
        /\ call.outcome.kind = "DataFrame"
        /\ Len(call.outcome.rows) = PairsBefore(Len(Entries) + 1)
        /\ \A i \in DOMAIN Entries : \A j \in DOMAIN Entries[i]["data"] :
              call.outcome.rows[PairsBefore(i) + j] =
                  [timestamp |-> to_datetime(Entries[i]["startTime"]),
                   psrType |-> Entries[i]["data"][j]["psrType"],
                   quantity |-> Entries[i]["data"][j]["quantity"]]

C7_Witness ==
    /\ call.op = "process_data"
    /\ ValidGenerationPayload
    /\ Len(Entries) = 2
    /\ Len(Entries[1]["data"]) = 0
    /\ Len(Entries[2]["data"]) = 2
    /\ Entries[2]["data"][1] # Entries[2]["data"][2]
    /\ Len(call.outcome.rows) = 2

ValidDemandPayload ==
    /\ call.strategy = "DemandStrategy"
    /\ \A i \in DOMAIN Entries :
          /\ "startTime" \in DOMAIN Entries[i]
          /\ Parsable(Entries[i]["startTime"])

\* C8: on a valid Demand payload of N entries process_data yields N rows,
\* one per entry in order; an entry without initialDemandOutturn gives a row
\* whose initialDemandOutturn is null, and no error.
C8_DemandRows ==
    (call.op = "process_data" /\ ValidDemandPayload) =>
        /\ call.outcome.kind = "DataFrame"
        /\ Len(call.outcome.rows) = Len(Entries)
        /\ \A i \in DOMAIN Entries :
              /\ call.outcome.rows[i]["timestamp"] = to_datetime(Entries[i]["startTime"])
              /\ call.outcome.rows[i]["initialDemandOutturn"] =
                    (IF "initialDemandOutturn" \in DOMAIN Entries[i]
                     THEN Entries[i]["initialDemandOutturn"] ELSE Null)

C8_Witness ==
    /\ call.op = "process_data"
    /\ ValidDemandPayload
    /\ Len(Entries) = 2
    /\ "initialDemandOutturn" \in DOMAIN Entries[1]
    /\ "initialDemandOutturn" \notin DOMAIN Entries[2]
    /\ call.outcome.kind = "DataFrame"
    /\ call.outcome.rows[2]["initialDemandOutturn"] = Null

\* An entry lacks a field the claim lists as required for its strategy.
LacksRequired(strategy, entry) ==
    CASE strategy = "TemperatureStrategy" ->
            ~({"temperature", "temperatureReferenceAverage", "measurementDate"}
                \subseteq DOMAIN entry)
      [] strategy = "GenerationStrategy" ->
            \/ ~({"startTime", "data"} \subseteq DOMAIN entry)
            \/ /\ "data" \in DOMAIN entry
               /\ \E j \in DOMAIN entry["data"] :
                     ~({"psrType", "quantity"} \subseteq DOMAIN entry["data"][j])
      [] strategy = "DemandStrategy" -> "startTime" \notin DOMAIN entry

\* The same, with startTime required of a Generation entry only when the
\* entry has a pair to make a row of.
LacksRead(strategy, entry) ==
    IF strategy = "GenerationStrategy"
    THEN \/ "data" \notin DOMAIN entry
         \/ /\ entry["data"] # <<>>
            /\ \/ "startTime" \notin DOMAIN entry
               \/ \E j \in DOMAIN entry["data"] :
                     ~({"psrType", "quantity"} \subseteq DOMAIN entry["data"][j])
    ELSE LacksRequired(strategy, entry)

\* C9 as stated: when an entry of the payload lacks a required field, the
\* transformation produces no table and fetch_data lets the error out: the
\* outcome is a raised exception, never None and never a table.
C9_MissingFieldIsFatal ==
    (Returned /\ \E i \in DOMAIN Entries : LacksRequired(call.strategy, Entries[i]))
        => call.outcome.kind = "raise"

\* C9 amended: the same, startTime being required of a Generation entry only
\* when the entry holds at least one pair; the error is a KeyError, raised
\* by process_data and passed on unchanged by fetch_data.
C9_ReadFieldMissingIsFatal ==
    (Returned /\ \E i \in DOMAIN Entries : LacksRead(call.strategy, Entries[i]))
        => call.outcome = Raised("KeyError")

C9_Witness ==
    /\ call.op = "fetch_data"
    /\ call.strategy = "TemperatureStrategy"
    /\ Len(Entries) = 2
    /\ ~LacksRequired(call.strategy, Entries[1])
    /\ "temperatureReferenceAverage" \notin DOMAIN Entries[2]
    /\ call.outcome = Raised("KeyError")
    /\ Len(requests) = 1

----------------------------------------------------------------------------
(* Claims about a run of ingest_elexon_data (Spec)                           *)

\* The Temperature fetch of the run has returned None (a transport failure
\* is caught and turned into None; an exception would have ended the run at
\* that fetch).
TemperatureAbsent ==
    /\ temperature_data.kind = "None"
    /\ fetch_calls >= 1
    /\ ~(fetch_calls = 1 /\ pc = "fatal")

\* C2 as stated: in a run whose Temperature fetch failed at transport level
\* the run ends before alignment is attempted: no merge is ever started
\* with the missing Temperature table.
C2_NoMergeStarted == TemperatureAbsent => merges = <<>>

\* C2 amended: in a run whose Temperature fetch failed at transport level
\* the run gets no further than the first merge statement: the remaining
\* fetches are still issued, at most that one merge is started (with the
\* missing table, which it rejects with a TypeError, ending the run), no
\* merged table is ever bound and the second merge never starts.
C2_FatalByFirstMerge ==
    TemperatureAbsent =>
        /\ pc \in {"get_generation_data", "get_demand_data", "merge_temperature", "fatal"}
        /\ merged_data = PyNone
        /\ merges \in {<<>>, <<[left |-> "DataFrame", right |-> "None"]>>}
        /\ (merges # <<>> => (pc = "fatal" /\ fatal = "TypeError"))

C2_Witness ==
    /\ TemperatureAbsent
    /\ fetch_calls = 3
    /\ pc = "fatal"
    /\ fatal = "TypeError"
    /\ merges = <<[left |-> "DataFrame", right |-> "None"]>>

\* The run's three fetches succeeded with one Generation row (one entry with
\* one pair), one Temperature row of the same calendar date and an empty
\* Demand data list.
Scenario2 ==
    /\ fetch_calls = 3
    /\ generation_data.kind = "DataFrame"
    /\ Len(generation_data.rows) = 1
    /\ temperature_data.kind = "DataFrame"
    /\ Len(temperature_data.rows) = 1
    /\ temperature_data.rows[1]["timestamp"] = date(generation_data.rows[1]["timestamp"])
    /\ demand_data.kind = "DataFrame"
    /\ demand_data.rows = <<>>

\* C3: a run in scenario 2 ends with a consolidated table of zero rows.
C3_EmptyDemandGivesEmptyTable ==
    (Scenario2 /\ pc \notin {"merge_temperature", "merge_demand"}) =>
        /\ pc = "done"
        /\ merged_data.kind = "DataFrame"
        /\ merged_data.rows = <<>>

RunEndpoints == <<"temperature", "generation/actual/per-type", "demand/outturn">>

\* C10: every fetch_data call of a run issues exactly one GET, failed or
\* not, and the run requests the endpoints one after another in the order
\* temperature, generation/actual/per-type, demand/outturn, each at most
\* once.
C10_OneGetPerFetch ==
    /\ Len(requests) = fetch_calls
    /\ fetch_calls <= 3
    /\ \A i \in DOMAIN requests : requests[i].url[2] = RunEndpoints[i]
    /\ (pc = "get_temperature_data" => fetch_calls = 0)
    /\ (pc = "get_generation_data" => fetch_calls = 1)
    /\ (pc = "get_demand_data" => fetch_calls = 2)
    /\ (pc \in {"merge_temperature", "merge_demand", "done"} => fetch_calls = 3)

C10_Witness ==
    /\ Len(requests) = 3
    /\ temperature_data.kind = "None"
    /\ generation_data.kind = "None"
    /\ call.response.status_code = 500
    /\ pc = "fatal"

----------------------------------------------------------------------------
(* Claims about the merges (SpecAlign)                                       *)

Range(f) == {f[i] : i \in DOMAIN f}

Count(rows, r) == Cardinality({i \in DOMAIN rows : rows[i] = r})

\* The same rows with the same multiplicities, whatever their order.
SameBag(a, b) == \A r \in Range(a) \cup Range(b) : Count(a, r) = Count(b, r)

\* An inner join on a label: the left rows in order, each with every right
\* row of the same key.
InnerJoinRows(left, right, on) ==
    Flatten([i \in 1..Len(left.rows) |->
                LET m == SelectSeq(right.rows, LAMBDA r : r[on] = left.rows[i][on])
                IN  [j \in 1..Len(m) |-> left.rows[i] @@ m[j]]])

NoNull(r) == \A c \in DOMAIN r : ~IsNull(c, r[c])

Intermediate == FirstMerge(generation_data, temperature_data)

\* C4 as stated: the second merge statement (outer join, then dropna) gives
\* the rows of an inner join on timestamp of the same two inputs.
C4_OuterDropnaIsInnerJoin ==
    pc = "done" =>
        SameBag(merged_data.rows, InnerJoinRows(Intermediate, demand_data, "timestamp"))

\* C4 amended: whenever the second merge statement completes, it gives the
\* rows (order aside) of an inner join on timestamp of the same two inputs
\* from which every row holding a null is removed; every row of the final
\* table has a timestamp that Generation and Demand both hold and whose
\* calendar date Temperature holds.
C4_OuterDropnaIsInnerJoinDropna ==
    pc = "done" =>
        /\ SameBag(merged_data.rows,
                   SelectSeq(InnerJoinRows(Intermediate, demand_data, "timestamp"), NoNull))
        /\ \A n \in DOMAIN merged_data.rows :
              LET ts == merged_data.rows[n]["timestamp"]
              IN  /\ \E i \in DOMAIN generation_data.rows :
                        generation_data.rows[i]["timestamp"] = ts
                  /\ \E i \in DOMAIN demand_data.rows :
                        demand_data.rows[i]["timestamp"] = ts
                  /\ \E i \in DOMAIN temperature_data.rows :
                        temperature_data.rows[i]["timestamp"] = date(ts)

C4_Witness ==
    /\ pc = "done"
    /\ Len(generation_data.rows) = 2
    /\ Len(demand_data.rows) = 2
    /\ Len(merged_data.rows) = 1
    /\ Len(InnerJoinRows(Intermediate, demand_data, "timestamp")) = 2

\* Row i of the self-merge is row i of the table: its timestamp, and its
\* value columns under both suffixes.
SelfMergeRowIs(m, t) ==
    /\ m["timestamp"] = t["timestamp"]
    /\ \A c \in DOMAIN t \ {"timestamp"} : m[c \o "_x"] = t[c] /\ m[c \o "_y"] = t[c]

SelfMergeReproduces ==
    /\ merged_data.kind = "DataFrame"
    /\ Len(merged_data.rows) = Len(temperature_data.rows)
    /\ \A i \in DOMAIN temperature_data.rows :
          SelfMergeRowIs(merged_data.rows[i], temperature_data.rows[i])

DistinctTimestamps(frame) ==
    \A i, j \in DOMAIN frame.rows :
        frame.rows[i]["timestamp"] = frame.rows[j]["timestamp"] => i = j

FirstJoinRan == pc \in {"merge_demand", "done", "fatal"}

\* The Temperature rows whose date is the calendar date of a Generation row.
DateMatches(g) ==
    {j \in DOMAIN temperature_data.rows :
        temperature_data.rows[j]["timestamp"] = date(g["timestamp"])}

\* A row of the frame made of a Generation row's own fields and the given
\* Temperature fields.
HasRow(frame, g, temperature, average) ==
    \E n \in DOMAIN frame.rows :
        /\ frame.rows[n]["timestamp"] = g["timestamp"]
        /\ frame.rows[n]["psrType"] = g["psrType"]
        /\ frame.rows[n]["quantity"] = g["quantity"]
        /\ frame.rows[n]["temperature"] = temperature
        /\ frame.rows[n]["temperatureReferenceAverage"] = average

\* The frame is a table over the Generation and Temperature fields with one
\* timestamp column; every Generation row is in it with the fields of each
\* Temperature row of its calendar date, or with null Temperature fields
\* when there is none; and each of its timestamps is a Generation timestamp.
RetainsGeneration(frame) ==
    /\ frame.kind = "DataFrame"
    /\ frame.columns = {"timestamp", "psrType", "quantity", "temperature",
                        "temperatureReferenceAverage"}
    /\ \A i \in DOMAIN generation_data.rows :
          LET g == generation_data.rows[i]
          IN  IF DateMatches(g) = {}
              THEN HasRow(frame, g, Null, Null)
              ELSE \A j \in DateMatches(g) :
                      HasRow(frame, g, temperature_data.rows[j]["temperature"],
                             temperature_data.rows[j]["temperatureReferenceAverage"])
    /\ \A n \in DOMAIN frame.rows :
          \E i \in DOMAIN generation_data.rows :
              /\ frame.rows[n]["timestamp"] = generation_data.rows[i]["timestamp"]
              /\ frame.rows[n]["psrType"] = generation_data.rows[i]["psrType"]
              /\ frame.rows[n]["quantity"] = generation_data.rows[i]["quantity"]

\* C11: for all Generation and Temperature tables the first join yields an
\* intermediate table that retains every Generation row with its own
\* timestamp, psrType and quantity, its Temperature fields being those of
\* the Temperature row of the same calendar date, or null when there is
\* none; the table's timestamp column is the Generation timestamp.
C11_FirstJoinRetainsGeneration ==
    FirstJoinRan =>
        /\ RetainsGeneration(Intermediate)
        /\ (pc = "merge_demand" => merged_data = Intermediate)

\* C11 on tables that both have a row: the same statement, which the first
\* join meets whenever neither table comes from an empty data list.
C11_RetainsGenerationOfNonEmptyTables ==
    (FirstJoinRan /\ generation_data.rows # <<>> /\ temperature_data.rows # <<>>) =>
        /\ RetainsGeneration(Intermediate)
        /\ (pc = "merge_demand" => merged_data = Intermediate)

C11_Witness ==
    /\ pc = "merge_demand"
    /\ Len(generation_data.rows) = 2
    /\ Len(temperature_data.rows) = 1
    /\ DateMatches(generation_data.rows[1]) = {1}
    /\ DateMatches(generation_data.rows[2]) = {}
    /\ Len(merged_data.rows) = 2
    /\ merged_data.rows[2]["temperature"] = Null
    /\ RetainsGeneration(merged_data)

====
